---- MODULE Spec2Model ----
(***************************************************************************)
(* Model of pillar/vault.py: the Vault external pillar of Salt.            *)
(*                                                                         *)
(* Python values are tagged records:                                       *)
(*   None        [t |-> "none"]                                            *)
(*   True/False  [t |-> "bool", b |-> ...]                                 *)
(*   a string    [t |-> "str",  s |-> <<byte codes>>]                      *)
(*   a dict      [t |-> "dict", d |-> function from keys to values]        *)
(* Strings are sequences of byte codes so that split('?', 1), startswith,  *)
(* b64decode and rstrip are computed and not assumed.                      *)
(***************************************************************************)
EXTENDS Integers, Sequences, FiniteSets, TLC

\* ------------------------------------------------------------------ values
None == [t |-> "none"]
Bool(b) == [t |-> "bool", b |-> b]
Str(s) == [t |-> "str", s |-> s]
Dict(d) == [t |-> "dict", d |-> d]
EmptyFcn == [x \in {} |-> None]
EmptyDict == Dict(EmptyFcn)

\* Python truth value of a value (the `if x:` test).
Truthy(v) ==
    CASE v.t = "none" -> FALSE
      [] v.t = "bool" -> v.b
      [] v.t = "str"  -> Len(v.s) > 0
      [] v.t = "dict" -> DOMAIN v.d # {}
      [] OTHER -> TRUE

\* ------------------------------------------------------------ byte strings
QMARK == 63
PAD == 61
\* "base64:"
prefix == <<98, 97, 115, 101, 54, 52, 58>>
\* str.isspace() bytes stripped by rstrip(): \t \n \v \f \r and space
Whitespace == {9, 10, 11, 12, 13, 32}

RECURSIVE rstrip(_)
rstrip(s) ==
    IF Len(s) > 0 /\ s[Len(s)] \in Whitespace
    THEN rstrip(SubSeq(s, 1, Len(s) - 1))
    ELSE s

startswith(s, p) == Len(s) >= Len(p) /\ SubSeq(s, 1, Len(p)) = p

\* Index of the first '?' of s, 0 when there is none.
RECURSIVE FirstQ(_, _)
FirstQ(s, i) ==
    IF i > Len(s) THEN 0
    ELSE IF s[i] = QMARK THEN i
    ELSE FirstQ(s, i + 1)

\* Index of the last '?' of s, 0 when there is none.
RECURSIVE LastQ(_, _)
LastQ(s, i) ==
    IF i = 0 THEN 0
    ELSE IF s[i] = QMARK THEN i
    ELSE LastQ(s, i - 1)

\* A variant that splits at the last '?' (rsplit).
SplitRefLast(s) ==
    LET i == LastQ(s, Len(s)) IN
    IF i = 0 THEN [path |-> s, key |-> None]
    ELSE [path |-> SubSeq(s, 1, i - 1), key |-> Str(SubSeq(s, i + 1, Len(s)))]

\* location.split('?', 1) unpacked into (path, key); the ValueError of a
\* one-element result gives (location, None).
SplitRef(s) ==
    LET i == FirstQ(s, 1) IN
    IF i = 0 THEN [path |-> s, key |-> None]
    ELSE [path |-> SubSeq(s, 1, i - 1), key |-> Str(SubSeq(s, i + 1, Len(s)))]

\* ---------------------------------------------------------------- base64
\* table_a2b_base64: the 6-bit value of a byte, -1 for a byte outside the
\* alphabet; the pad byte '=' has the table value 0.
B64Val(c) ==
    IF c >= 65 /\ c <= 90 THEN c - 65
    ELSE IF c >= 97 /\ c <= 122 THEN c - 71
    ELSE IF c >= 48 /\ c <= 57 THEN c + 4
    ELSE IF c = 43 THEN 62
    ELSE IF c = 47 THEN 63
    ELSE IF c = PAD THEN 0
    ELSE -1

\* binascii_find_valid: the (num+1)th valid base64 byte of s from index i.
RECURSIVE FindValid(_, _, _)
FindValid(s, i, num) ==
    IF i > Len(s) THEN -1
    ELSE IF s[i] <= 127 /\ B64Val(s[i]) # -1
         THEN IF num = 0 THEN s[i] ELSE FindValid(s, i + 1, num - 1)
         ELSE FindValid(s, i + 1, num)

Pow2(n) == IF n = 0 THEN 1 ELSE IF n = 2 THEN 4 ELSE IF n = 4 THEN 16
           ELSE IF n = 6 THEN 64 ELSE IF n = 8 THEN 256 ELSE 1024

\* binascii.a2b_base64 as called by base64.b64decode: [ok, out].  ok is
\* FALSE for "Incorrect padding", which b64decode raises as TypeError.
RECURSIVE A2B(_, _, _, _, _, _)
A2B(s, i, quad_pos, leftchar, leftbits, out) ==
    IF i > Len(s) THEN [ok |-> leftbits = 0, out |-> out]
    ELSE LET c == s[i] IN
      IF c > 127 \/ c \in {13, 10, 32}
      THEN A2B(s, i + 1, quad_pos, leftchar, leftbits, out)
      ELSE IF c = PAD
      THEN IF quad_pos < 2 \/ (quad_pos = 2 /\ FindValid(s, i, 1) # PAD)
           THEN A2B(s, i + 1, quad_pos, leftchar, leftbits, out)
           ELSE [ok |-> TRUE, out |-> out]
      ELSE IF B64Val(c) = -1
      THEN A2B(s, i + 1, quad_pos, leftchar, leftbits, out)
      ELSE LET lc == leftchar * 64 + B64Val(c)
               lb == leftbits + 6
           IN IF lb >= 8
              THEN A2B(s, i + 1, (quad_pos + 1) % 4, lc % Pow2(lb - 8), lb - 8,
                       Append(out, (lc \div Pow2(lb - 8)) % 256))
              ELSE A2B(s, i + 1, (quad_pos + 1) % 4, lc, lb, out)

b64decode(s) == A2B(s, 1, 0, 0, 0, <<>>)

\* ------------------------------------------------------------ dict helpers
\* d.get(k, None)
Get(d, k) == IF k \in DOMAIN d THEN d[k] ELSE None
\* d[k] = v
Put(d, k, v) == [y \in DOMAIN d \cup {k} |-> IF y = k THEN v ELSE d[y]]

\* ---------------------------------------------------------- configuration
Keys == {"url", "config", "token", "app_id", "user_id", "user_file",
         "role_id", "secret_id", "secret_file", "unset_if_missing"}

\* 'https://vault:8200'
DefaultUrl == <<104, 116, 116, 112, 115, 58, 47, 47, 118, 97, 117, 108, 116,
                58, 56, 50, 48, 48>>
\* '/srv/salt/secrets.yml'
DefaultConfig == <<47, 115, 114, 118, 47, 115, 97, 108, 116, 47, 115, 101, 99,
                   114, 101, 116, 115, 46, 121, 109, 108>>

\* The module-level CONF dictionary as first imported.
DefaultCONF ==
    [url |-> Str(DefaultUrl), config |-> Str(DefaultConfig), token |-> None,
     app_id |-> None, user_id |-> None, user_file |-> None, role_id |-> None,
     secret_id |-> None, secret_file |-> None,
     unset_if_missing |-> Bool(FALSE)]

\* The "Load configuration values" loop: a key of CONF is replaced by the
\* keyword argument only when that argument is truthy.
MergeConf(conf, kwargs) ==
    [k \in Keys |-> IF Truthy(kwargs[k]) THEN kwargs[k] ELSE conf[k]]

\* "salt://"
SaltScheme == <<115, 97, 108, 116, 58, 47, 47>>
\* "/cache/": where the local file client caches fileserver files
CacheRoot == <<47, 99, 97, 99, 104, 101, 47>>
\* minion.functions["cp.cache_file"]: the local path of the cached copy
cache_file(url) == Str(CacheRoot \o SubSeq(url, Len(SaltScheme) + 1, Len(url)))

\* "Resolve salt:// fileserver path, if necessary": CONF["config"] is
\* overwritten with the cached path.
ResolveConfig(conf) ==
    IF startswith(conf.config.s, SaltScheme)
    THEN [conf EXCEPT !.config = cache_file(conf.config.s)]
    ELSE conf

\* ------------------------------------------------------------ credentials
\* "/.vault-id", the default source of _get_id_from_file
DefaultIdFile == <<47, 46, 118, 97, 117, 108, 116, 45, 105, 100>>
\* "/f"
SecretFilePath == <<47, 102>>

\* The master's files: /.vault-id holds "d\n", /f holds "s \n".
FileExists(source) == source \in {DefaultIdFile, SecretFilePath}
FileContent(source) ==
    IF source = DefaultIdFile THEN <<100, 10>> ELSE <<115, 32, 10>>

\* _get_id_from_file: the content without trailing whitespace, "" when the
\* file does not exist (the sources used are absolute, normalised paths).
get_id_from_file(source) ==
    IF FileExists(source) THEN rstrip(FileContent(source)) ELSE <<>>

\* "tok": the client token the server returns for a login
SessionToken == <<116, 111, 107>>

AuthCall(method, a, b) == [method |-> method, a |-> a, b |-> b]

\* A variant whose branches are independent `if` statements.
authenticate_all(conf, environ) ==
    (IF Truthy(conf.token) THEN <<AuthCall("token", conf.token, None)>> ELSE <<>>)
    \o (IF Truthy(conf.role_id)
        THEN <<AuthCall("auth_approle", conf.role_id, conf.secret_id)>> ELSE <<>>)
    \o (IF Truthy(conf.app_id)
        THEN <<AuthCall("auth_app_id", conf.app_id, conf.user_id)>> ELSE <<>>)
    \o (IF Truthy(environ) THEN <<AuthCall("env", environ, None)>> ELSE <<>>)

\* _authenticate: the sequence of strategies applied to the client, each
\* with its arguments (for the logins, the identifier pair sent).
authenticate(conf, environ) ==
    IF Truthy(conf.token)
    THEN <<AuthCall("token", conf.token, None)>>
    ELSE IF Truthy(conf.role_id)
    THEN LET secret_id ==
               IF Truthy(conf.secret_id) THEN conf.secret_id
               ELSE IF Truthy(conf.secret_file)
                    THEN Str(get_id_from_file(conf.secret_file.s))
                    ELSE Str(get_id_from_file(DefaultIdFile))
         IN <<AuthCall("auth_approle", conf.role_id, secret_id)>>
    ELSE IF Truthy(conf.app_id)
    THEN LET user_id ==
               IF Truthy(conf.user_id) THEN conf.user_id
               ELSE IF Truthy(conf.user_file)
                    THEN Str(get_id_from_file(conf.user_file.s))
                    ELSE Str(get_id_from_file(DefaultIdFile))
         IN <<AuthCall("auth_app_id", conf.app_id, user_id)>>
    ELSE IF Truthy(environ)
    THEN <<AuthCall("env", environ, None)>>
    ELSE <<>>

\* conn.token after the strategies have been applied, in order.
TokenAfter(calls) ==
    IF calls = <<>> THEN None
    ELSE LET c == calls[Len(calls)] IN
         IF c.method \in {"token", "env"} THEN c.a ELSE Str(SessionToken)

\* ------------------------------------------------------------- the store
\* conn.read(path): the structure stored at path, None when there is none.
conn_read(store, path) == IF path \in DOMAIN store THEN store[path] ELSE None

\* --------------------------------------------------------------- couple
ErrNone == "none"
\* secret["data"] on the None that read() gave for a missing secret
ErrNoneSubscript == "TypeError: 'NoneType' object has no attribute '__getitem__'"
\* base64.b64decode on a remainder that is not padded
ErrPadding == "TypeError: Incorrect padding"
\* minions['minions'] on a list of node ids
ErrListIndex == "TypeError: list indices must be integers, not str"

Ret(val, reads, err) == [val |-> val, reads |-> reads, err |-> err]

\* Lines 223-224, reached by every path that has not returned: coupled_data
\* when it is non-empty or unset_if_missing is off, else None.
Fallthrough(coupled_data, unset) ==
    IF Truthy(Dict(coupled_data)) \/ ~unset THEN Dict(coupled_data) ELSE None

\* The string branch of couple().
CoupleString(location, store, unset) ==
    LET sp == SplitRef(location)
        read == conn_read(store, sp.path)
        reads == <<sp.path>>
    IN IF Truthy(sp.key)
       THEN IF read.t # "dict"
            THEN Ret(None, reads, ErrNoneSubscript)
            ELSE LET got == Get(read.d["data"].d, sp.key.s) IN
                 IF Truthy(got) /\ startswith(got.s, prefix)
                 THEN LET dec == b64decode(SubSeq(got.s, Len(prefix) + 1, Len(got.s)))
                          secret == Str(rstrip(dec.out))
                      IN IF ~dec.ok THEN Ret(None, reads, ErrPadding)
                         ELSE IF Truthy(secret) \/ ~unset
                         THEN Ret(secret, reads, ErrNone)
                         ELSE Ret(Fallthrough(EmptyFcn, unset), reads, ErrNone)
                 ELSE IF Truthy(got) \/ ~unset
                      THEN Ret(got, reads, ErrNone)
                      ELSE Ret(Fallthrough(EmptyFcn, unset), reads, ErrNone)
       ELSE IF Truthy(read) \/ ~unset
            THEN Ret(read, reads, ErrNone)
            ELSE Ret(Fallthrough(EmptyFcn, unset), reads, ErrNone)

\* couple(location, conn): the value returned, the paths read in order, and
\* the exception raised if any.  A mapping location is a sequence of
\* <<return_key, real_location>> in the iteration order of its items().
RECURSIVE couple(_, _, _), CoupleItems(_, _, _, _, _, _)
couple(location, store, unset) ==
    IF location.t = "str"
    THEN CoupleString(location.s, store, unset)
    ELSE IF location.t = "dict"
    THEN CoupleItems(location.items, 1, EmptyFcn, <<>>, store, unset)
    ELSE Ret(Fallthrough(EmptyFcn, unset), <<>>, ErrNone)

CoupleItems(items, i, coupled_data, reads, store, unset) ==
    IF i > Len(items)
    THEN Ret(Fallthrough(coupled_data, unset), reads, ErrNone)
    ELSE LET r == couple(items[i][2], store, unset) IN
         IF r.err # ErrNone
         THEN Ret(None, reads \o r.reads, r.err)
         ELSE CoupleItems(items, i + 1, Put(coupled_data, items[i][1], r.val),
                          reads \o r.reads, store, unset)

\* ---------------------------------------------------------- node filters
Inventory == {"web01", "db01", "minions"}

\* The compound matcher's verdict for the filters used in the secret maps.
Matches(filter) ==
    CASE filter = "web*" -> {"web01"}
      [] filter = "db*"  -> {"db01"}
      [] filter = "*"    -> Inventory
      [] OTHER           -> {}

\* ckminions.check_minions(filter, "compound"): a list of node ids in older
\* Salt ("plain"), a dict holding the list under 'minions' since Salt 2018
\* ("wrapper").
check_minions(filter, shape) == [shape |-> shape, ids |-> Matches(filter)]

\* 'minions' in minions: key membership for the dict, element membership
\* for the list.
HasMinions(minions) ==
    IF minions.shape = "wrapper" THEN TRUE ELSE "minions" \in minions.ids

\* ------------------------------------------------------- ext_pillar steps
\* Whether hvac.Client(...) is constructed in an invocation: only after the
\* map has been rendered and the url has been found set.
ClientEverywhere(rendered, conf) == TRUE
ClientCreated(rendered, conf) == rendered /\ Truthy(conf.url)

\* The reads issued so far, a variant that skips paths already read.
RECURSIVE IssueReadsOnce(_, _)
IssueReadsOnce(reads, new) ==
    IF new = <<>> THEN reads
    ELSE IssueReadsOnce(
           IF \E i \in 1..Len(reads) : reads[i] = Head(new)
           THEN reads ELSE Append(reads, Head(new)),
           Tail(new))
\* The reads issued so far, extended by those of one couple() call.
IssueReads(reads, new) == reads \o new

\* A variant that assigns whatever couple() returned.
StoreAlways(pillar, variable, return_data) == Put(pillar, variable, return_data)
\* Lines 272-273: the variable is set only to a truthy value.
StoreVariable(pillar, variable, return_data) ==
    IF Truthy(return_data) THEN Put(pillar, variable, return_data) ELSE pillar

\* ------------------------------------------------------------------ inputs
\* How many invocations of ext_pillar one master process is followed through.
MaxInvocations == 2

\* Secret references: "p?a", "p?a?b", "p", "p?", "p?zz", "q?a", "q", "p?c",
\* "p?d", "p?e", "p?f", "p?g"
RefPA == Str(<<112, 63, 97>>)
RefPAB == Str(<<112, 63, 97, 63, 98>>)
RefP == Str(<<112>>)
RefPEmptyKey == Str(<<112, 63>>)
RefPZZ == Str(<<112, 63, 122, 122>>)
RefQA == Str(<<113, 63, 97>>)
RefQ == Str(<<113>>)
RefPC == Str(<<112, 63, 99>>)
RefPD == Str(<<112, 63, 100>>)
RefPE == Str(<<112, 63, 101>>)
RefPF == Str(<<112, 63, 102>>)
RefPG == Str(<<112, 63, 103>>)
\* A mapping of return keys to locations, and a location that is neither a
\* string nor a mapping (a YAML number).
Mapping(items) == [t |-> "dict", items |-> items]
Number == [t |-> "int"]

Entry(filter, secrets) == [filter |-> filter, secrets |-> secrets]

\* Rendered secret maps, in the iteration order of their items().
Maps ==
    { <<>>,
      << Entry("web*", << <<"ssl_cert", RefPA>>, <<"ssl_key", RefPZZ>> >>) >>,
      << Entry("*", << <<"v", RefPA>> >>),
         Entry("web*", << <<"v", RefPZZ>> >>) >>,
      << Entry("web*", << <<"v", RefPZZ>> >>),
         Entry("db*", << <<"w", RefP>> >>),
         Entry("*", << <<"v", RefPAB>> >>) >>,
      << Entry("web*", << <<"v", RefP>>, <<"w", RefP>> >>),
         Entry("db*", << <<"u", RefQ>> >>) >>,
      << Entry("web*", << <<"n", Mapping(<< <<"a", RefPA>>,
                                            <<"b", Mapping(<< <<"c", RefPZZ>> >>)>> >>)>>,
                          <<"o", RefPC>>, <<"k", RefPAB>> >>) >>,
      << Entry("db*", << <<"n", Mapping(<< <<"a", RefPZZ>> >>)>>,
                         <<"e", Mapping(<< >>)>>,
                         <<"k", RefQA>> >>) >>,
      << Entry("web*", << <<"b1", RefPD>>, <<"b2", RefPF>>, <<"b3", RefPE>>,
                          <<"b4", RefPEmptyKey>> >>),
         Entry("db*", << <<"b5", RefPG>> >>) >>,
      << Entry("db*", << <<"v", RefQA>> >>),
         Entry("*", << <<"v", RefQ>>, <<"i", Number>> >>) >> }

RenderOutcomes ==
    {[ok |-> TRUE, map |-> m] : m \in Maps} \cup {[ok |-> FALSE, map |-> <<>>]}

\* The structure read() returns for a secret with the given data.
Secret(data) == Dict([data |-> Dict(data)])

\* Store states: paths "p" and "q", keys "a", "a?b", "c".."g", "zz".
Stores ==
    { (<<112>> :> Secret(
          (<<97>> :> Str(<<115, 51>>))
          @@ (<<97, 63, 98>> :> Str(<<120>>))
          @@ (<<99>> :> Str(<<98, 97, 115, 101, 54, 52, 58, 81, 81, 61, 61>>))
          @@ (<<100>> :> Str(<<98, 97, 115, 101, 54, 52, 58, 81, 83, 65, 61>>))
          @@ (<<101>> :> Str(<<>>))
          @@ (<<102>> :> Str(<<98, 97, 115, 101, 54, 52, 58>>))
          @@ (<<103>> :> Str(<<98, 97, 115, 101, 54, 52, 58, 81>>)))),
      (<<112>> :> Secret(
          (<<97>> :> Str(<<120>>))
          @@ (<<122, 122>> :> Str(<<115, 51>>))
          @@ (<<99>> :> Str(<<115, 51>>))))
      @@ (<<113>> :> Secret(
          (<<97>> :> Str(<<98, 97, 115, 101, 54, 52, 58, 81, 81, 61, 61>>)))),
      [y \in {} |-> None] }

\* Keyword arguments: every key of CONF, None where the caller gave none.
KW(overrides) ==
    [k \in Keys |-> IF k \in DOMAIN overrides THEN overrides[k] ELSE None]

KwargsSet ==
    { KW([y \in {} |-> None]),
      KW([token |-> Str(<<116>>), role_id |-> Str(<<114>>), app_id |-> Str(<<97>>)]),
      KW([role_id |-> Str(<<114>>), secret_id |-> Str(<<115>>)]),
      KW([role_id |-> Str(<<114>>), secret_file |-> Str(SecretFilePath),
          app_id |-> Str(<<97>>)]),
      KW([app_id |-> Str(<<97>>), user_id |-> Str(<<117>>)]),
      KW([app_id |-> Str(<<97>>)]),
      KW([unset_if_missing |-> Bool(TRUE)]),
      KW([unset_if_missing |-> Bool(FALSE), url |-> Str(<<>>), token |-> Str(<<>>)]),
      KW([config |-> Str(<<115, 97, 108, 116, 58, 47, 47, 109>>),
          unset_if_missing |-> Bool(TRUE), token |-> Str(<<116>>)]) }

\* os.environ.get('VAULT_TOKEN'): unset, or "e"
Environs == {None, Str(<<101>>)}

\* ------------------------------------------------------------------- state
VARIABLES
    CONF,          \* the module-level configuration dictionary
    store,         \* the secrets held by the Vault server
    environ,       \* VAULT_TOKEN in the master's environment
    shape,         \* the return shape of check_minions in the installed Salt
    pc,            \* position of the current invocation
    invocations,   \* invocations started so far
    minion_id,     \* ext_pillar's minion_id argument
    kwargs,        \* ext_pillar's keyword arguments
    rendered,      \* whether compile_template produced the map
    secret_map,    \* the loaded secret map
    conn,          \* the hvac client: [created, token]
    auth_calls,    \* strategies _authenticate applied in this invocation
    fi,            \* index of the filter being processed
    vi,            \* index of the variable being processed
    vault_pillar,  \* the fragment being built
    reads,         \* paths read from the store in this invocation
    resolved,      \* top-level couple() calls: filter, variable, location, value
    err            \* the exception the invocation raised

vars == <<CONF, store, environ, shape, pc, invocations, minion_id, kwargs,
          rendered, secret_map, conn, auth_calls, fi, vi, vault_pillar, reads,
          resolved, err>>

NoConn == [created |-> FALSE, token |-> None]
NoKwargs == KW([y \in {} |-> None])

Init ==
    /\ CONF = DefaultCONF
    /\ store \in Stores
    /\ environ \in Environs
    /\ shape \in {"plain", "wrapper"}
    /\ pc = "idle"
    /\ invocations = 0
    /\ minion_id = "web01"
    /\ kwargs = NoKwargs
    /\ rendered = FALSE
    /\ secret_map = <<>>
    /\ conn = NoConn
    /\ auth_calls = <<>>
    /\ fi = 0
    /\ vi = 0
    /\ vault_pillar = EmptyFcn
    /\ reads = <<>>
    /\ resolved = <<>>
    /\ err = ErrNone

unset_if_missing == Truthy(CONF.unset_if_missing)

\* Lines 231-260: merge the keyword arguments into CONF, resolve a salt://
\* map location, render the map, check the url, connect and authenticate.
\* outcome is what compile_template and yaml.safe_load gave: the map, or
\* nothing when the file could not be rendered.
Invoke(m, kw, outcome) ==
    /\ pc = "idle"
    /\ invocations < MaxInvocations
    /\ LET conf == ResolveConfig(MergeConf(CONF, kw))
           ok == outcome.ok
           proceed == ok /\ Truthy(conf.url)
           calls == IF proceed THEN authenticate(conf, environ) ELSE <<>>
       IN /\ CONF' = conf
          /\ rendered' = ok
          /\ secret_map' = outcome.map
          /\ conn' = [created |-> ClientCreated(ok, conf),
                      token |-> TokenAfter(calls)]
          /\ auth_calls' = calls
          /\ pc' = IF proceed /\ Len(outcome.map) > 0 THEN "filter" ELSE "returned"
          /\ fi' = IF proceed /\ Len(outcome.map) > 0 THEN 1 ELSE 0
    /\ invocations' = invocations + 1
    /\ minion_id' = m
    /\ kwargs' = kw
    /\ vi' = 0
    /\ vault_pillar' = EmptyFcn
    /\ reads' = <<>>
    /\ resolved' = <<>>
    /\ err' = ErrNone
    /\ UNCHANGED <<store, environ, shape>>

\* The position after filter i has been dealt with.
AfterFilter(i) ==
    /\ pc' = IF i < Len(secret_map) THEN "filter" ELSE "returned"
    /\ fi' = IF i < Len(secret_map) THEN i + 1 ELSE i
    /\ vi' = 0

\* Lines 264-269: evaluate one filter and test the node's membership.
CheckFilter ==
    /\ pc = "filter"
    /\ LET minions == check_minions(secret_map[fi].filter, shape) IN
       IF HasMinions(minions) /\ minions.shape = "plain"
       THEN /\ pc' = "raised"
            /\ err' = ErrListIndex
            /\ UNCHANGED <<fi, vi>>
       ELSE /\ err' = err
            /\ IF minion_id \in minions.ids /\ Len(secret_map[fi].secrets) > 0
               THEN pc' = "couple" /\ vi' = 1 /\ fi' = fi
               ELSE AfterFilter(fi)
    /\ UNCHANGED <<CONF, store, environ, shape, invocations, minion_id, kwargs,
                   rendered, secret_map, conn, auth_calls, vault_pillar, reads,
                   resolved>>

\* Lines 270-273: resolve one variable of a matching filter.
CoupleVariable ==
    /\ pc = "couple"
    /\ LET secrets == secret_map[fi].secrets
           variable == secrets[vi][1]
           location == secrets[vi][2]
           r == couple(location, store, unset_if_missing)
       IN /\ reads' = IssueReads(reads, r.reads)
          /\ IF r.err # ErrNone
             THEN /\ pc' = "raised"
                  /\ err' = r.err
                  /\ UNCHANGED <<fi, vi, vault_pillar, resolved>>
             ELSE /\ err' = err
                  /\ vault_pillar' = StoreVariable(vault_pillar, variable, r.val)
                  /\ resolved' = Append(resolved,
                                   [filter |-> fi, variable |-> variable,
                                    location |-> location, val |-> r.val])
                  /\ IF vi < Len(secrets)
                     THEN pc' = "couple" /\ vi' = vi + 1 /\ fi' = fi
                     ELSE AfterFilter(fi)
    /\ UNCHANGED <<CONF, store, environ, shape, invocations, minion_id, kwargs,
                   rendered, secret_map, conn, auth_calls>>

\* The invocation is over (ext_pillar returned vault_pillar, or the
\* exception went to the caller); only CONF outlives it.
Finish ==
    /\ pc \in {"returned", "raised"}
    /\ pc' = "idle"
    /\ minion_id' = "web01"
    /\ kwargs' = NoKwargs
    /\ rendered' = FALSE
    /\ secret_map' = <<>>
    /\ conn' = NoConn
    /\ auth_calls' = <<>>
    /\ fi' = 0
    /\ vi' = 0
    /\ vault_pillar' = EmptyFcn
    /\ reads' = <<>>
    /\ resolved' = <<>>
    /\ err' = ErrNone
    /\ UNCHANGED <<CONF, store, environ, shape, invocations>>

Next ==
    \/ \E m \in Inventory, kw \in KwargsSet, outcome \in RenderOutcomes :
          Invoke(m, kw, outcome)
    \/ CheckFilter
    \/ CoupleVariable
    \/ Finish

Spec == Init /\ [][Next]_vars

\* ================================================================ properties
Resolved == {resolved[i] : i \in 1..Len(resolved)}
MatchingFilters == {f \in 1..Len(secret_map) : minion_id \in Matches(secret_map[f].filter)}
HasQ(s) == \E i \in 1..Len(s) : s[i] = QMARK
\* The part of a reference before its first '?' and the part after it.
PathOf(s) == IF HasQ(s) THEN SubSeq(s, 1, (CHOOSE i \in 1..Len(s) :
                 s[i] = QMARK /\ \A j \in 1..(i - 1) : s[j] # QMARK) - 1) ELSE s
KeyOf(s) == SubSeq(s, Len(PathOf(s)) + 2, Len(s))
DataOf(structure) == structure.d["data"].d
\* Number of top-level couple() calls made for a variable name.
TimesMapped(v) == Cardinality({i \in 1..Len(resolved) : resolved[i].variable = v})

\* C1: a top-level 'path?key' variable of a matching filter whose key is
\* absent from the secret's data is left out of the returned fragment when
\* unset_if_missing is on, and is in the fragment with value None when off.
C1_MissingKeyPolicy ==
    pc = "returned" =>
      \A e \in Resolved :
        (/\ e.location.t = "str"
         /\ HasQ(e.location.s)
         /\ KeyOf(e.location.s) # <<>>
         /\ PathOf(e.location.s) \in DOMAIN store
         /\ KeyOf(e.location.s) \notin DOMAIN DataOf(store[PathOf(e.location.s)])
         /\ TimesMapped(e.variable) = 1)
        => IF unset_if_missing
           THEN e.variable \notin DOMAIN vault_pillar
           ELSE /\ e.variable \in DOMAIN vault_pillar
                /\ vault_pillar[e.variable] = None

\* C2: a reference to a missing secret or a missing key never makes couple()
\* or ext_pillar() raise: the invocation never ends with the exception of
\* subscripting the None that the read of a missing secret returned.
C2_MissingNeverRaises == err # ErrNoneSubscript

\* C3: an invocation that reaches authentication applies at most one
\* strategy, the first of token, role_id, app_id, VAULT_TOKEN that is set;
\* with a token configured the client carries that token and no login call
\* is made.
FirstStrategy ==
    IF Truthy(CONF.token) THEN "token"
    ELSE IF Truthy(CONF.role_id) THEN "auth_approle"
    ELSE IF Truthy(CONF.app_id) THEN "auth_app_id"
    ELSE IF Truthy(environ) THEN "env"
    ELSE "nothing"
C3_OneStrategy ==
    conn.created =>
      /\ Len(auth_calls) <= 1
      /\ IF FirstStrategy = "nothing" THEN auth_calls = <<>>
         ELSE Len(auth_calls) = 1 /\ auth_calls[1].method = FirstStrategy
      /\ Truthy(CONF.token) =>
           /\ conn.token = CONF.token
           /\ \A i \in 1..Len(auth_calls) : auth_calls[i].method = "token"
\* Every credential is set and the token strategy alone was applied.
C3_Witness ==
    /\ conn.created
    /\ Truthy(CONF.token) /\ Truthy(CONF.role_id) /\ Truthy(CONF.app_id)
    /\ Truthy(environ)
    /\ Len(auth_calls) = 1 /\ auth_calls[1].method = "token"

\* C4: for both return shapes of the matcher and every node id, the
\* variables of a filter are resolved exactly when minion_id is in the
\* filter's matched set; a node matched by no filter gets an empty fragment
\* and causes no read.
C4_MembershipGates ==
    (pc \in {"returned", "raised"} /\ rendered
       /\ err \notin {ErrNoneSubscript, ErrPadding}) =>
      /\ \A f \in 1..Len(secret_map) :
           (\E e \in Resolved : e.filter = f) <=> f \in MatchingFilters
      /\ MatchingFilters = {} => vault_pillar = EmptyFcn /\ reads = <<>>

Decoded(raw) ==
    IF raw.t = "str" /\ startswith(raw.s, prefix)
    THEN Str(rstrip(b64decode(SubSeq(raw.s, Len(prefix) + 1, Len(raw.s))).out))
    ELSE raw
WellPadded(raw) ==
    (raw.t = "str" /\ startswith(raw.s, prefix))
      => b64decode(SubSeq(raw.s, Len(prefix) + 1, Len(raw.s))).ok
\* What the amended C5 says couple() does with a string reference:
\* [raises, val].
Reference(s, st, unset) ==
    LET read == conn_read(st, PathOf(s)) IN
    IF ~HasQ(s) \/ KeyOf(s) = <<>>
    THEN [raises |-> FALSE, val |-> read]
    ELSE IF read = None
    THEN [raises |-> TRUE, val |-> None]
    ELSE LET raw == Get(DataOf(read), KeyOf(s)) IN
         IF ~WellPadded(raw) THEN [raises |-> TRUE, val |-> None]
         ELSE [raises |-> FALSE,
               val |-> IF ~Truthy(Decoded(raw)) /\ unset THEN None ELSE Decoded(raw)]

C6_NoCarryOver ==
    pc # "idle" => CONF = ResolveConfig(MergeConf(DefaultCONF, kwargs))

\* C7: in the sub-mapping couple() builds for a mapping reference, an entry
\* whose resolved value is empty is present as None when unset_if_missing is
\* off and absent when it is on.
C7_MappingEntries ==
    \A e \in Resolved :
      (e.location.t = "dict" /\ e.val.t = "dict") =>
        \A i \in 1..Len(e.location.items) :
          LET name == e.location.items[i][1]
              sub == couple(e.location.items[i][2], store, unset_if_missing)
          IN (sub.err = ErrNone /\ ~Truthy(sub.val)) =>
               IF unset_if_missing
               THEN name \notin DOMAIN e.val.d
               ELSE name \in DOMAIN e.val.d /\ e.val.d[name] = None

\* C8: an invocation whose map could not be rendered, or whose url is not
\* set, returns the empty fragment without raising, creates no client,
\* authenticates with nothing and reads nothing.
C8_EarlyReturn ==
    (pc # "idle" /\ (~rendered \/ ~Truthy(CONF.url))) =>
      /\ pc = "returned"
      /\ err = ErrNone
      /\ vault_pillar = EmptyFcn
      /\ ~conn.created
      /\ auth_calls = <<>>
      /\ reads = <<>>
\* The map could not be rendered although credentials were configured.
C8_Witness ==
    /\ pc = "returned" /\ ~rendered /\ Truthy(CONF.role_id)
    /\ ~conn.created /\ auth_calls = <<>>

\* Number of string leaves of a location, with multiplicity.
RECURSIVE Leaves(_), LeavesOfItems(_, _)
Leaves(location) ==
    IF location.t = "str" THEN 1
    ELSE IF location.t = "dict" THEN LeavesOfItems(location.items, 1)
    ELSE 0
LeavesOfItems(items, i) ==
    IF i > Len(items) THEN 0
    ELSE Leaves(items[i][2]) + LeavesOfItems(items, i + 1)
RECURSIVE LeavesOfMap(_)
LeavesOfMap(f) ==
    IF f > Len(secret_map) THEN 0
    ELSE (IF f \in MatchingFilters
          THEN LeavesOfItems(secret_map[f].secrets, 1) ELSE 0)
         + LeavesOfMap(f + 1)

\* C9: an invocation that completes has issued as many reads as there are
\* string leaves, with multiplicity, under the filters that match the node.
C9_OneReadPerLeaf == pc = "returned" => Len(reads) = LeavesOfMap(1)
\* Two leaves naming the same path were read twice, a leaf under a filter
\* that does not match was not read.
C9_Witness ==
    /\ pc = "returned"
    /\ reads = << <<112>>, <<112>> >>
    /\ \E f \in 1..Len(secret_map) : f \notin MatchingFilters

\* C10: the fragment's value for a variable is the value of the last
\* top-level resolution of that name that was non-empty; a later empty one
\* neither overwrites nor removes it; every value in the fragment is
\* non-empty.
NonEmptyAt(v) == {i \in 1..Len(resolved) :
                    resolved[i].variable = v /\ Truthy(resolved[i].val)}
Last(S) == CHOOSE i \in S : \A j \in S : j <= i
====
